---- MODULE Spec2Model ----
(***************************************************************************)
(* A model of the English-learning client: the App shell (accounts, the    *)
(* current user, the current view), the TopicView session (lesson and      *)
(* practice fetches, vocabulary toggles, section completion), the content  *)
(* cache of the generator service, and the ExamView.                       *)
(*                                                                         *)
(* React semantics that the model keeps:                                   *)
(*  - a handler or an effect reads the props and state of the render that  *)
(*    created it.  The continuation of an `await` keeps those values, so a *)
(*    pending request carries the `user` its closures captured;            *)
(*  - a state setter of an unmounted component does nothing, a setter of   *)
(*    App always applies (App is never unmounted);                         *)
(*  - the continuation of an await on an already resolved promise (a cache *)
(*    hit) runs before any other event, so it is part of the same step;    *)
(*  - the state updates of one continuation are applied together, then the *)
(*    component renders and its effects run.                               *)
(***************************************************************************)
EXTENDS Integers, Sequences, FiniteSets, TLC

\* ------------------------------------------------------------------ bounds
MaxPending == 2     \* generator calls in flight at once
MaxCalls == 3       \* generator calls in one run, over all cache keys
MaxExams == 1       \* exams a user starts with an empty-enough history: StartExam
                    \* needs fewer than MaxExams stored results
MaxQuestions == 2   \* questions of a generated exam
MaxTasks == 2       \* follow-up tasks of a practice session
MaxEvals == 2       \* answer evaluations asked for in one topic session
ExamSeconds == 3    \* the countdown's length: EXAM_DURATION is 30 * 60 seconds in
                    \* the source, the model counts down from ExamSeconds

Names == {"ann"}
OtherNames == {"bob"}       \* a second account on the same device
AllNames == Names \cup OtherNames
Passwords == {"pw1", "pw2"}
Levels == {"A1", "A2"}
Topics == {"t1", "t2"}
Words == {"w1", "w2"}

\* The static curriculum table: the topics of each level.
curriculum(level) == IF level = "A1" THEN {"t1"} ELSE {"t2"}

\* null / undefined
Null == [null |-> TRUE]

\* What the generator can answer for a lesson and for a practice session.
LessonContents ==
    { [id |-> "L1", vocabulary |-> <<"w1">>],
      [id |-> "L2", vocabulary |-> <<"w1", "w2">>] }
PracticeContents == { [id |-> "P1"], [id |-> "P2"] }

\* The options of an exam question, and the exams the generator can answer with.
Options == <<"a", "b">>
ExamQuestions == { [options |-> Options, correctAnswer |-> c] : c \in {"a", "b"} }
ExamPapers == UNION { [1..n -> ExamQuestions] : n \in 1..MaxQuestions }

\* EXAM_DURATION = 30 * 60 seconds; the model's countdown starts at ExamSeconds,
\* which stands for it.
EXAM_DURATION == 30 * 60

\* The exam the prompt asks the generator for: ExamLength questions.
ExamLength == 25
RequestedPaper == [i \in 1..ExamLength |-> [options |-> Options, correctAnswer |-> "a"]]

\* The follow-up tasks of a practice session, what the user can type into a
\* task's textarea, and what the generator can answer to an evaluation.
TaskIndices == 0..(MaxTasks - 1)
AnswerTexts == {"", " ", "x"}
EvalResults == { [feedback |-> "fb", isCorrect |-> c] : c \in {"true", "false"} }

Kinds == {"lesson", "practice"}
CacheKeys == [kind : Kinds, level : Levels, topic : Topics]

\* ------------------------------------------------------------------ state
VARIABLES
    accounts,       \* localStorage 'english-learner-accounts': name -> account | Null
    user,           \* App state: the current user | Null
    currentView,    \* App state
    selectedTopic,  \* App state: topic id | "none"
    cache,          \* sessionStorage: cache key -> stored string | Null
    genCalls,       \* number of generator invocations per cache key
    firstResult,    \* the content of the first successful generation per key | Null
    pending,        \* generator calls in flight, with what their closures captured
    tv,             \* the mounted TopicView's state | Null
    ev,             \* the mounted ExamView's state | Null
    lastOp          \* what the last step did

vars == <<accounts, user, currentView, selectedTopic, cache, genCalls,
          firstResult, pending, tv, ev, lastOp>>

\* ------------------------------------------------------- arrays and JSON
Includes(arr, x) == \E i \in 1..Len(arr) : arr[i] = x
Without(arr, x) == SelectSeq(arr, LAMBDA e : e # x)
Elems(arr) == { arr[i] : i \in 1..Len(arr) }
NoDuplicates(arr) == \A i, j \in 1..Len(arr) : arr[i] = arr[j] => i = j

\* JSON.stringify / JSON.parse of plain data: the string holds the value.
JSONstringify(value) == [json |-> value]
JSONparse(str) == str.json

\* btoa / atob of the password
btoa(pass) == <<"b64", pass>>
atob(enc) == enc[2]

\* --------------------------------------------------------------- progress
DefaultProgress == [completedVocabulary |-> <<>>, completedSections |-> <<>>]

\* userProgress || { completedVocabulary: [], completedSections: [] }
ProgressOf(u, topic) ==
    IF u.progress[topic] = Null THEN DefaultProgress ELSE u.progress[topic]

\* { ...progress, ...updates }
MergeProgress(progress, updates) ==
    [f \in {"completedVocabulary", "completedSections"} |->
        IF f \in DOMAIN updates THEN updates[f] ELSE progress[f]]

ToggleWordAlwaysAdd(completed, targetWord) == Append(completed, targetWord)
ToggleWord(completed, targetWord) ==
    IF Includes(completed, targetWord)
    THEN Without(completed, targetWord)
    ELSE Append(completed, targetWord)

isTopicComplete(u, topicId) ==
    /\ u.progress[topicId] # Null
    /\ Includes(u.progress[topicId].completedSections, "lesson")
    /\ Includes(u.progress[topicId].completedSections, "practice")

\* Header.isTopicComplete and the header's "n of m topics completed"
HeaderIsTopicComplete(topicId, progress) ==
    /\ progress[topicId] # Null
    /\ Includes(progress[topicId].completedSections, "lesson")
    /\ Includes(progress[topicId].completedSections, "practice")
completedTopicsCount(u) ==
    Cardinality({t \in curriculum(u.level) : HeaderIsTopicComplete(t, u.progress)})

\* AccountView.completedTopics: the topics of the "Completed Topics" list
completedTopics(u) ==
    {t \in Topics : u.progress[t] # Null /\ Len(u.progress[t].completedSections) > 0}

\* ------------------------------------------------------------- App shell
persistUserUpdateAll(accts, updatedUser) ==
    [n \in DOMAIN accts |->
        IF accts[n] # Null THEN [accts[n] EXCEPT !.data = updatedUser] ELSE Null]
\* localStorage is the external account store: its reads and writes succeed.
persistUserUpdate(accts, updatedUser) ==
    IF accts[updatedUser.name] # Null
    THEN [accts EXCEPT ![updatedUser.name].data = updatedUser]
    ELSE accts

\* The world a handler works on: the part of the state a progress update,
\* a fetch or a render can change.
World == [user |-> user, accounts |-> accounts, tv |-> tv, ev |-> ev, pending |-> pending,
          cache |-> cache, genCalls |-> genCalls, firstResult |-> firstResult,
          pushed |-> FALSE, rerun |-> FALSE]

\* App.handleProgressUpdate as the closure of the render in which `user` was u.
AppHandleProgressUpdate(W, u, topicId, updatedProgress) ==
    IF u = Null THEN W
    ELSE LET updatedUser == [u EXCEPT !.progress[topicId] = updatedProgress]
         IN [W EXCEPT !.user = updatedUser,
                      !.accounts = persistUserUpdate(W.accounts, updatedUser),
                      !.pushed = TRUE]

\* TopicView.handleProgressUpdate as the closure of the render whose props came from u.
TopicHandleProgressUpdate(W, u, topic, updates) ==
    AppHandleProgressUpdate(W, u, topic, MergeProgress(ProgressOf(u, topic), updates))

\* if (!progress.completedSections.includes(s)) handleProgressUpdate({completedSections: [...,s]})
MarkSectionReplacing(W, u, topic, section) ==
    IF Includes(ProgressOf(u, topic).completedSections, section) THEN W
    ELSE TopicHandleProgressUpdate(W, u, topic, [completedSections |-> <<section>>])
MarkSectionAlways(W, u, topic, section) ==
    TopicHandleProgressUpdate(W, u, topic,
        [completedSections |-> Append(ProgressOf(u, topic).completedSections, section)])
MarkSection(W, u, topic, section) ==
    IF Includes(ProgressOf(u, topic).completedSections, section) THEN W
    ELSE TopicHandleProgressUpdate(W, u, topic,
            [completedSections |-> Append(ProgressOf(u, topic).completedSections, section)])

\* ------------------------------------------------- generator service cache
cacheKey(kind, level, topic) == [kind |-> kind, level |-> level, topic |-> topic]

\* sessionStorage.getItem(cacheKey): the cached string | Null
cachedDataNever(c, kind, level, topic) == Null
cachedData(c, kind, level, topic) == c[cacheKey(kind, level, topic)]

RECURSIVE SumOver(_, _)
SumOver(f, S) ==
    IF S = {} THEN 0
    ELSE LET k == CHOOSE x \in S : TRUE IN f[k] + SumOver(f, S \ {k})
TotalCalls(g) == SumOver(g, CacheKeys)

FreshId(P) == CHOOSE i \in 1..(Cardinality(P) + 1) : \A r \in P : r.id # i

\* generateLessonContent / generateComprehensivePractice up to their first
\* suspension: a cache hit returns the parsed entry, a miss calls the generator.
\* u is the user the caller's closures hold.
IssueGeneratorCall(W, kind, level, topic, u) ==
    LET key == cacheKey(kind, level, topic)
        req == [id |-> FreshId(W.pending), kind |-> kind, level |-> level,
                topic |-> topic, user |-> u, live |-> TRUE]
    IN [W EXCEPT !.genCalls[key] = @ + 1,
                 !.pending = @ \cup {req}]

\* the generator resolved: sessionStorage.setItem(cacheKey, JSON.stringify(content));
\* stored = FALSE is setItem throwing (the catch logs and goes on).
StoreResult(W, key, content, stored) ==
    [W EXCEPT !.cache[key] = IF stored THEN JSONstringify(content) ELSE @,
              !.firstResult[key] = IF @ = Null THEN content ELSE @]

\* -------------------------------------------------------------- TopicView
LessonError == "Failed to generate the lesson. Please try again."
PracticeError == "Failed to generate practice session. Please try again."

MountedTopicView(level, topic) ==
    [topic |-> topic, level |-> level,
     lessonContent |-> Null, practiceContent |-> Null,
     isLoading |-> [lesson |-> TRUE, practice |-> FALSE],
     error |-> "none",
     userAnswers |-> [i \in TaskIndices |-> ""],
     taskFeedback |-> [i \in TaskIndices |-> Null],
     quiz |-> [currentQuestionIndex |-> 0, selectedAnswer |-> Null, showResult |-> FALSE,
               score |-> 0, completions |-> 0],   \* the state of the comprehension Quiz
     lastGoodPractice |-> Null,   \* history: the last practice content this session received
     evalCalls |-> [i \in TaskIndices |-> 0],   \* history: checkUserAnswer calls of this session, per task index
     overlap |-> FALSE]     \* history: a lesson and a practice fetch of this session were in flight together

LiveInFlight(W, kind) == \E r \in W.pending : r.live /\ r.kind = kind

\* The effect of [level, topic]: fetchLesson().  u is the user of the render
\* the effect belongs to.
FetchLesson(W, u, level, topic) ==
    LET W1 == [W EXCEPT !.tv.isLoading = [lesson |-> TRUE, practice |-> FALSE],
                        !.tv.error = "none",
                        !.tv.level = level]
        data == cachedData(W.cache, "lesson", level, topic)
    IN IF data # Null
       THEN LET W2 == [W1 EXCEPT !.tv.lessonContent = JSONparse(data)]
                W3 == MarkSection(W2, u, topic, "lesson")
            IN [W3 EXCEPT !.tv.isLoading.lesson = FALSE]
       ELSE LET W2 == IssueGeneratorCall(W1, "lesson", level, topic, u)
            IN [W2 EXCEPT !.tv.overlap = @ \/ LiveInFlight(W, "practice")]

\* React renders after the step's updates; the effect runs again when the
\* level prop differs from the level it last ran with.
Render(W) ==
    IF W.tv # Null /\ W.user # Null /\ W.user.level # W.tv.level
    THEN [FetchLesson(W, W.user, W.user.level, W.tv.topic) EXCEPT !.rerun = TRUE]
    ELSE W

\* (an unmount that submits a running exam)
UnmountSubmitting(W) ==
    LET U == [W EXCEPT !.tv = Null, !.ev = Null,
                       !.pending = { [r EXCEPT !.live = FALSE] : r \in @ }]
    IN IF W.ev # Null /\ W.user # Null /\ W.ev.examStarted /\ ~W.ev.examFinished
       THEN LET updatedUser == [W.user EXCEPT !.examHistory =
                                    Append(@, [score |-> 0, total |-> Len(W.ev.answers)])]
            IN [U EXCEPT !.user = updatedUser,
                         !.accounts = persistUserUpdate(W.accounts, updatedUser)]
       ELSE U

\* leaving a view unmounts TopicView or ExamView: the pending continuations
\* still run, their setters on the unmounted component do nothing.
Unmount(W) ==
    [W EXCEPT !.tv = Null,
              !.ev = Null,
              !.pending = { [r EXCEPT !.live = FALSE] : r \in @ }]

\* The practice pane offers a button that calls handleGeneratePractice:
\* "Generate Practice" (no content, no error, not loading) or
\* "Regenerate Practice" (content present, not loading).
PracticeButtonEnabled(t) ==
    /\ ~t.isLoading.practice
    /\ \/ t.practiceContent # Null
       \/ t.error = "none"

\* handleGeneratePractice, as the closure of the current render (user u).
HandleGeneratePractice(W, u, level, topic) ==
    IF W.tv.isLoading.practice THEN W
    ELSE
    LET W1 == [W EXCEPT !.tv.practiceContent = Null,
                        !.tv.userAnswers = [i \in TaskIndices |-> ""],
                        !.tv.taskFeedback = [i \in TaskIndices |-> Null],
                        !.tv.isLoading.practice = TRUE,
                        !.tv.error = "none"]
        data == cachedData(W.cache, "practice", level, topic)
    IN IF data # Null
       THEN LET W2 == [W1 EXCEPT !.tv.practiceContent = JSONparse(data),
                                 !.tv.lastGoodPractice = JSONparse(data)]
                W3 == MarkSection(W2, u, topic, "practice")
            IN [W3 EXCEPT !.tv.isLoading.practice = FALSE]
       ELSE LET W2 == IssueGeneratorCall(W1, "practice", level, topic, u)
            IN [W2 EXCEPT !.tv.overlap = @ \/ LiveInFlight(W, "lesson")]

\* handleVocabToggle, as the closure of the current render (user u).
HandleVocabToggle(W, u, topic, targetWord) ==
    TopicHandleProgressUpdate(W, u, topic,
        [completedVocabulary |->
            ToggleWord(ProgressOf(u, topic).completedVocabulary, targetWord)])

\* the continuation of fetchLesson / handleGeneratePractice after the await
ContinueAfterSuccess(W, r, content) ==
    LET field == IF r.kind = "lesson" THEN "lessonContent" ELSE "practiceContent"
        W0 == IF r.live THEN [W EXCEPT !.tv[field] = content] ELSE W
        W1 == IF r.live /\ r.kind = "practice"
              THEN [W0 EXCEPT !.tv.lastGoodPractice = content] ELSE W0
        W2 == MarkSection(W1, r.user, r.topic, r.kind)
    IN IF r.live THEN [W2 EXCEPT !.tv.isLoading[r.kind] = FALSE] ELSE W2

\* (a catch that writes a placeholder entry into the cache)
ContinueAfterFailureCaching(W, r) ==
    LET W1 == [W EXCEPT !.cache[cacheKey(r.kind, r.level, r.topic)] =
                            JSONstringify([id |-> "P1"])]
    IN IF r.live
       THEN [W1 EXCEPT !.tv.error = IF r.kind = "lesson" THEN LessonError ELSE PracticeError,
                       !.tv.isLoading[r.kind] = FALSE]
       ELSE W1

\* (a catch without the finally: the loading flag is not reset)
ContinueAfterFailureStillLoading(W, r) ==
    IF r.live
    THEN [W EXCEPT !.tv.error = IF r.kind = "lesson" THEN LessonError ELSE PracticeError]
    ELSE W

ContinueAfterFailure(W, r) ==
    IF r.live
    THEN [W EXCEPT !.tv.error = IF r.kind = "lesson" THEN LessonError ELSE PracticeError,
                   !.tv.isLoading[r.kind] = FALSE]
    ELSE W

\* ------------------------------------------------- follow-up task answers
FeedbackError == "Failed to get feedback. Please try again."

\* String.prototype.trim on the texts of AnswerTexts
Trim(str) == IF str = " " THEN "" ELSE str

\* renderPracticeContent shows the generated practice (and its tasks)
PracticeContentShown(t) ==
    ~t.isLoading.practice /\ t.error = "none" /\ t.practiceContent # Null

\* isChecked = feedback && !feedback.loading
IsChecked(t, i) == t.taskFeedback[i] # Null /\ ~t.taskFeedback[i].loading

\* the "Check Answer" button of task i is not disabled
CheckButtonEnabled(t, i) ==
    /\ Trim(t.userAnswers[i]) # ""
    /\ ~(t.taskFeedback[i] # Null /\ t.taskFeedback[i].loading)
    /\ ~IsChecked(t, i)

\* (a non-functional update, setTaskFeedback({ [taskIndex]: feedback }))
SetTaskFeedbackReplacing(taskFeedback, taskIndex, feedback) ==
    [k \in DOMAIN taskFeedback |-> IF k = taskIndex THEN feedback ELSE Null]
\* setTaskFeedback(prev => ({ ...prev, [taskIndex]: feedback }))
SetTaskFeedback(taskFeedback, taskIndex, feedback) ==
    [taskFeedback EXCEPT ![taskIndex] = feedback]

\* (a catch that stores the failure as an incorrect answer)
FailedFeedbackIncorrect(errorMessage) ==
    [text |-> errorMessage, loading |-> FALSE, isCorrect |-> "false"]
\* { text: errorMessage, loading: false }
FailedFeedback(errorMessage) ==
    [text |-> errorMessage, loading |-> FALSE, isCorrect |-> "undefined"]

\* handleCheckAnswer up to its await: the call of checkUserAnswer
HandleCheckAnswer(W, i) ==
    IF Trim(W.tv.userAnswers[i]) = "" THEN W
    ELSE [W EXCEPT
            !.tv.taskFeedback = SetTaskFeedback(@, i,
                [text |-> "", loading |-> TRUE, isCorrect |-> "undefined"]),
            !.tv.evalCalls[i] = @ + 1,
            !.pending = @ \cup {[id |-> FreshId(W.pending), kind |-> "evaluate",
                                 level |-> W.tv.level, topic |-> W.tv.topic,
                                 user |-> Null, live |-> TRUE, index |-> i]}]

\* a click on the "Check Answer" button of task i: a disabled button ignores it
ClickCheckAnswerUnguarded(W, i) == HandleCheckAnswer(W, i)
ClickCheckAnswer(W, i) ==
    IF CheckButtonEnabled(W.tv, i) THEN HandleCheckAnswer(W, i) ELSE W

\* --------------------------------------------------------------- ExamView
ExamError == "Failed to generate the exam. Please try again."

Str(option) == [str |-> option]

MountedExamView ==
    [questions |-> Null, isLoading |-> TRUE, error |-> "none",
     examStarted |-> FALSE, examFinished |-> FALSE,
     timeLeft |-> ExamSeconds, currentQuestionIndex |-> 0, answers |-> <<>>]

\* answers.reduce((score, answer, index) => ..., 0), from position index on
RECURSIVE Reduce(_, _, _, _)
Reduce(answers, questions, index, score) ==
    IF index > Len(answers) THEN score
    ELSE Reduce(answers, questions, index + 1,
                IF answers[index] = Str(questions[index].correctAnswer)
                THEN score + 1 ELSE score)

\* the questions array of a loaded exam (the state holds null or the array)
Loaded(paper) == [list |-> paper]
Questions(e) == e.questions.list

calculateScoreCountingUnanswered(e) ==
    IF e.questions = Null THEN 0
    ELSE Cardinality({ i \in 1..Len(e.answers) :
            e.answers[i] = Null \/ e.answers[i] = Str(Questions(e)[i].correctAnswer) })
calculateScore(e) ==
    IF e.questions = Null THEN 0
    ELSE Reduce(e.answers, Questions(e), 1, 0)

\* (a functional update, setUser(prev => ...), would append to the current user)
AppHandleSaveExamResultOnCurrent(W, u, result) ==
    IF W.user = Null THEN W
    ELSE LET updatedUser == [W.user EXCEPT !.examHistory = Append(@, result)]
         IN [W EXCEPT !.user = updatedUser,
                      !.accounts = persistUserUpdate(W.accounts, updatedUser)]

\* App.handleSaveExamResult as the closure of the render in which `user` was u.
\* (The result's date, new Date().toISOString(), is left out.)
AppHandleSaveExamResult(W, u, result) ==
    IF u = Null THEN W
    ELSE LET updatedUser == [u EXCEPT !.examHistory = Append(@, result)]
         IN [W EXCEPT !.user = updatedUser,
                      !.accounts = persistUserUpdate(W.accounts, updatedUser)]

\* finishExam, as the closure of the current render (user u)
FinishExam(W, u) ==
    LET W1 == [W EXCEPT !.ev.examFinished = TRUE, !.ev.examStarted = FALSE]
    IN IF W.ev.questions # Null
       THEN AppHandleSaveExamResult(W1, u,
                [score |-> calculateScore(W.ev), total |-> Len(Questions(W.ev))])
       ELSE W1

\* (an effect that lets the countdown pass zero)
TimerEffectLate(W, u) ==
    IF W.ev.examStarted /\ ~W.ev.examFinished /\ W.ev.timeLeft < 0
    THEN FinishExam(W, u)
    ELSE W

\* (an effect without the examFinished guard)
TimerEffectUnguarded(W, u) ==
    IF W.ev.examStarted /\ W.ev.timeLeft <= 0
    THEN FinishExam(W, u)
    ELSE W

\* (an effect whose finishExam holds the answers of the exam's first render)
TimerEffectStaleAnswers(W, u) ==
    IF W.ev.examStarted /\ ~W.ev.examFinished /\ W.ev.timeLeft <= 0
    THEN [FinishExam([W EXCEPT !.ev.answers = [i \in DOMAIN @ |-> Null]], u)
            EXCEPT !.ev.answers = W.ev.answers]
    ELSE W

\* the timer effect after a render: a started, unfinished exam whose time is
\* up finishes; otherwise the one-second interval is (re)armed.
TimerEffect(W, u) ==
    IF W.ev.examStarted /\ ~W.ev.examFinished /\ W.ev.timeLeft <= 0
    THEN FinishExam(W, u)
    ELSE W

\* what ExamView renders
ExamLoaded(e) == ~e.isLoading /\ e.error = "none" /\ e.questions # Null
\* (a start screen that does not wait for the questions)
ExamStartShownUngated(e) == ~e.examStarted
ExamStartShown(e) == ExamLoaded(e) /\ ~e.examStarted
ExamResultShown(e) == ExamLoaded(e) /\ e.examStarted /\ e.examFinished
ExamQuestionShown(e) == ExamLoaded(e) /\ e.examStarted /\ ~e.examFinished
ExamBackShown(e) == e # Null /\ (ExamStartShown(e) \/ ExamResultShown(e))

\* ------------------------------------------------------------------- Quiz
\* The comprehensionQuiz of a practice content: the generator is asked for
\* five questions and answers with any number.
comprehensionQuiz(content) ==
    IF content.id = "P1"
    THEN <<[options |-> Options, correctAnswer |-> "a"],
           [options |-> Options, correctAnswer |-> "b"]>>
    ELSE <<[options |-> Options, correctAnswer |-> "a"]>>

\* the state of a mounted Quiz; completions counts the onComplete calls of the
\* run (history)
QuizInitial ==
    [currentQuestionIndex |-> 0, selectedAnswer |-> Null, showResult |-> FALSE,
     score |-> 0, completions |-> 0]

\* Quiz.handleAnswerSelect
QuizHandleAnswerSelect(q, questions, option) ==
    IF q.showResult THEN q
    ELSE [q EXCEPT !.selectedAnswer = Str(option),
                   !.showResult = TRUE,
                   !.score = IF option = questions[q.currentQuestionIndex + 1].correctAnswer
                             THEN @ + 1 ELSE @]

\* Quiz.handleNext
QuizHandleNext(q, questions) ==
    [q EXCEPT !.completions = IF q.currentQuestionIndex + 1 >= Len(questions)
                              THEN @ + 1 ELSE @,
              !.selectedAnswer = Null,
              !.showResult = FALSE,
              !.currentQuestionIndex = @ + 1]

\* Quiz.handleRestart (a new run begins)
QuizHandleRestart(q) ==
    [q EXCEPT !.currentQuestionIndex = 0, !.selectedAnswer = Null,
              !.showResult = FALSE, !.score = 0, !.completions = 0]

\* what Quiz renders
QuizCompleteShown(q, questions) ==
    Len(questions) # 0 /\ q.currentQuestionIndex >= Len(questions)
QuizQuestionShown(q, questions) ==
    Len(questions) # 0 /\ q.currentQuestionIndex < Len(questions)

\* The practice pane renders <Quiz> only with the practice content shown: a
\* Quiz that is not rendered is unmounted and the next one starts afresh.
RenderQuiz(t) ==
    IF t = Null THEN t
    ELSE IF PracticeContentShown(t) THEN t
    ELSE [t EXCEPT !.quiz = QuizInitial]

\* ------------------------------------------------------------------ steps
NoOp == [op |-> "other", word |-> "none", before |-> <<>>, pushed |-> FALSE]

\* The step ends in world W; op says what the step was.  A run makes at most
\* MaxCalls generator calls, and one more when the step's render ran the
\* lesson effect again.
Commit(W, op) ==
    /\ Cardinality(W.pending) <= MaxPending
    /\ TotalCalls(W.genCalls) <= MaxCalls + (IF W.rerun THEN 1 ELSE 0)
    /\ user' = W.user
    /\ accounts' = W.accounts
    /\ tv' = RenderQuiz(W.tv)
    /\ ev' = W.ev
    /\ pending' = W.pending
    /\ cache' = W.cache
    /\ genCalls' = W.genCalls
    /\ firstResult' = W.firstResult
    /\ lastOp' = [op EXCEPT !.pushed = W.pushed]

HeaderShown == user # Null /\ currentView # "welcome"
WelcomeShown == user = Null \/ currentView = "welcome"
DashboardShown == user # Null /\ currentView = "dashboard"
TopicShown == user # Null /\ currentView = "topic" /\ tv # Null

Init ==
    /\ accounts = [n \in AllNames |-> Null]
    /\ user = Null
    /\ currentView = "welcome"
    /\ selectedTopic = "none"
    /\ cache = [k \in CacheKeys |-> Null]
    /\ genCalls = [k \in CacheKeys |-> 0]
    /\ firstResult = [k \in CacheKeys |-> Null]
    /\ pending = {}
    /\ tv = Null
    /\ ev = Null
    /\ lastOp = NoOp

UsernameExists == "Username already exists. Please choose another one or login."

\* (a sign-up that does not look for an existing account)
SignUpOverwriting(name, level, pass) ==
    /\ WelcomeShown
    /\ LET userWithProgress == [name |-> name, level |-> level,
                                progress |-> [t \in Topics |-> Null],
                                examHistory |-> <<>>]
       IN /\ Commit([World EXCEPT
                        !.accounts[name] = [password |-> btoa(pass), data |-> userWithProgress],
                        !.user = userWithProgress],
                    [NoOp EXCEPT !.op = "signUp"])
          /\ currentView' = "dashboard"
          /\ UNCHANGED selectedTopic

\* App.handleSignUp
SignUp(name, level, pass) ==
    /\ WelcomeShown
    /\ accounts[name] = Null
    /\ LET userWithProgress == [name |-> name, level |-> level,
                                progress |-> [t \in Topics |-> Null],
                                examHistory |-> <<>>]
       IN /\ Commit([World EXCEPT
                        !.accounts[name] = [password |-> btoa(pass), data |-> userWithProgress],
                        !.user = userWithProgress],
                    [NoOp EXCEPT !.op = "signUp"])
          /\ currentView' = "dashboard"
          /\ UNCHANGED selectedTopic

\* App.handleSignUp throwing 'Username already exists': WelcomeScreen catches
\* the error and shows its message.
SignUpRejected(name) ==
    /\ WelcomeShown
    /\ accounts[name] # Null
    /\ Commit(World, [NoOp EXCEPT !.op = "signUpRejected", !.word = UsernameExists,
                                  !.before = <<name>>])
    /\ UNCHANGED <<currentView, selectedTopic>>

\* App.handleLogin
Login(name, pass) ==
    /\ WelcomeShown
    /\ accounts[name] # Null
    /\ atob(accounts[name].password) = pass
    /\ Commit([World EXCEPT !.user = accounts[name].data], NoOp)
    /\ currentView' = "dashboard"
    /\ UNCHANGED selectedTopic

\* App.handleLogin throwing 'User not found' or 'Incorrect password'
LoginRejected(name, pass) ==
    /\ WelcomeShown
    /\ IF accounts[name] = Null THEN TRUE ELSE atob(accounts[name].password) # pass
    /\ Commit(World, NoOp)
    /\ UNCHANGED <<currentView, selectedTopic>>

\* App.handleLogout (Header)
Logout ==
    /\ HeaderShown
    /\ Commit([Unmount(World) EXCEPT !.user = Null], NoOp)
    /\ currentView' = "welcome"
    /\ UNCHANGED selectedTopic

\* App.handleSelectTopic (Dashboard), then TopicView mounts and its effect runs
SelectTopic(topic) ==
    /\ DashboardShown
    /\ topic \in curriculum(user.level)
    /\ Commit(FetchLesson([World EXCEPT !.tv = MountedTopicView(user.level, topic)],
                          user, user.level, topic),
              [NoOp EXCEPT !.op = "selectTopic"])
    /\ currentView' = "topic"
    /\ selectedTopic' = topic

\* App.handleBackToDashboard (the back button of TopicView, AccountView, ExamView)
BackToDashboard ==
    /\ user # Null
    /\ \/ currentView \in {"topic", "account"}
       \/ currentView = "exam" /\ ExamBackShown(ev)
    /\ Commit(Unmount(World), NoOp)
    /\ currentView' = "dashboard"
    /\ selectedTopic' = "none"

\* App.handleLevelChange (Dashboard)
LevelChange(newLevel) ==
    /\ DashboardShown
    /\ LET updatedUser == [user EXCEPT !.level = newLevel]
       IN Commit([World EXCEPT !.user = updatedUser,
                               !.accounts = persistUserUpdate(accounts, updatedUser)],
                 NoOp)
    /\ UNCHANGED <<currentView, selectedTopic>>

\* App.handleGoToAccount (Header)
GoToAccount ==
    /\ HeaderShown
    /\ currentView # "account"
    /\ Commit(Unmount(World), NoOp)
    /\ currentView' = "account"
    /\ UNCHANGED selectedTopic

\* the practice button of the mounted TopicView
GeneratePractice ==
    /\ TopicShown
    /\ PracticeButtonEnabled(tv)
    /\ Commit(HandleGeneratePractice(World, user, user.level, tv.topic),
              [NoOp EXCEPT !.op = "generatePractice"])
    /\ UNCHANGED <<currentView, selectedTopic>>

\* a click on a vocabulary check box of the shown lesson
VocabToggle(targetWord) ==
    /\ TopicShown
    /\ ~tv.isLoading.lesson
    /\ tv.lessonContent # Null
    /\ Includes(tv.lessonContent.vocabulary, targetWord)
    /\ Commit(HandleVocabToggle(World, user, tv.topic, targetWord),
              [NoOp EXCEPT !.op = "toggle", !.word = targetWord,
                           !.before = ProgressOf(user, tv.topic).completedVocabulary])
    /\ UNCHANGED <<currentView, selectedTopic>>

\* ------------------------------------------------------- ExamView steps
ExamShown == user # Null /\ currentView = "exam" /\ ev # Null

\* App.handleStartExam (Dashboard), then ExamView mounts and fetchExam runs.
\* fetchExam's continuation reads no App state, so the request captures no user.
StartExam ==
    /\ DashboardShown
    /\ Len(user.examHistory) < MaxExams
    /\ Commit([World EXCEPT
                  !.ev = MountedExamView,
                  !.pending = @ \cup {[id |-> FreshId(pending), kind |-> "exam",
                                       level |-> "none", topic |-> "none",
                                       user |-> Null, live |-> TRUE]}],
              NoOp)
    /\ currentView' = "exam"
    /\ UNCHANGED selectedTopic

\* generateExam resolves with the questions of paper
ExamResolves(r, paper) ==
    /\ r \in pending
    /\ r.kind = "exam"
    /\ LET W1 == [World EXCEPT !.pending = @ \ {r}]
       IN Commit(IF r.live
                 THEN [W1 EXCEPT !.ev.questions = Loaded(paper),
                                 !.ev.answers = [i \in 1..Len(paper) |-> Null],
                                 !.ev.isLoading = FALSE]
                 ELSE W1,
                 [NoOp EXCEPT !.op = "examLoaded"])
    /\ UNCHANGED <<currentView, selectedTopic>>

\* generateExam throws
ExamFails(r) ==
    /\ r \in pending
    /\ r.kind = "exam"
    /\ LET W1 == [World EXCEPT !.pending = @ \ {r}]
       IN Commit(IF r.live
                 THEN [W1 EXCEPT !.ev.error = ExamError, !.ev.isLoading = FALSE]
                 ELSE W1,
                 [NoOp EXCEPT !.op = "examFailed"])
    /\ UNCHANGED <<currentView, selectedTopic>>

\* the "Start Exam" button: setExamStarted(true), then the timer effect
ClickStartExam ==
    /\ ExamShown
    /\ ExamStartShown(ev)
    /\ Commit(TimerEffect([World EXCEPT !.ev.examStarted = TRUE], user),
              [NoOp EXCEPT !.op = "examStart"])
    /\ UNCHANGED <<currentView, selectedTopic>>

\* (an interval that is never cleared: it keeps firing after the exam finished)
TickNeverCleared ==
    /\ ExamShown
    /\ ExamLoaded(ev) /\ (ev.examStarted \/ ev.examFinished) /\ ev.timeLeft >= 0
    /\ Commit(TimerEffect([World EXCEPT !.ev.timeLeft = @ - 1], user),
              [NoOp EXCEPT !.op = "tick"])
    /\ UNCHANGED <<currentView, selectedTopic>>

\* the interval fires: setTimeLeft(prev => prev - 1), then the timer effect
Tick ==
    /\ ExamShown
    /\ ev.examStarted /\ ~ev.examFinished /\ ev.timeLeft > 0
    /\ Commit(TimerEffect([World EXCEPT !.ev.timeLeft = @ - 1], user),
              [NoOp EXCEPT !.op = "tick"])
    /\ UNCHANGED <<currentView, selectedTopic>>

\* (a handler that writes the first slot whatever the current question is)
ExamAnswerSelectFirstSlot(option) ==
    /\ ExamShown
    /\ ExamQuestionShown(ev)
    /\ Includes(Questions(ev)[ev.currentQuestionIndex + 1].options, option)
    /\ Commit([World EXCEPT !.ev.answers[1] = Str(option)],
              [NoOp EXCEPT !.op = "select", !.word = option,
                           !.before = <<ev.answers[ev.currentQuestionIndex + 1]>>])
    /\ UNCHANGED <<currentView, selectedTopic>>

\* ExamView.handleAnswerSelect on an option of the current question
ExamAnswerSelect(option) ==
    /\ ExamShown
    /\ ExamQuestionShown(ev)
    /\ Includes(Questions(ev)[ev.currentQuestionIndex + 1].options, option)
    /\ Commit([World EXCEPT !.ev.answers[ev.currentQuestionIndex + 1] = Str(option)],
              [NoOp EXCEPT !.op = "select", !.word = option,
                           !.before = <<ev.answers[ev.currentQuestionIndex + 1]>>])
    /\ UNCHANGED <<currentView, selectedTopic>>

\* ExamView.handleNext (shown on every question but the last)
ExamNext ==
    /\ ExamShown
    /\ ExamQuestionShown(ev)
    /\ ev.currentQuestionIndex # Len(Questions(ev)) - 1
    /\ Commit(IF ev.currentQuestionIndex < Len(Questions(ev)) - 1
              THEN [World EXCEPT !.ev.currentQuestionIndex = @ + 1]
              ELSE World,
              NoOp)
    /\ UNCHANGED <<currentView, selectedTopic>>

\* ExamView.handlePrev (disabled on the first question)
ExamPrev ==
    /\ ExamShown
    /\ ExamQuestionShown(ev)
    /\ ev.currentQuestionIndex # 0
    /\ Commit(IF ev.currentQuestionIndex > 0
              THEN [World EXCEPT !.ev.currentQuestionIndex = @ - 1]
              ELSE World,
              NoOp)
    /\ UNCHANGED <<currentView, selectedTopic>>

\* the "Finish Exam" button (shown on the last question)
ClickFinishExam ==
    /\ ExamShown
    /\ ExamQuestionShown(ev)
    /\ ev.currentQuestionIndex = Len(Questions(ev)) - 1
    /\ Commit(FinishExam(World, user), [NoOp EXCEPT !.op = "examFinish"])
    /\ UNCHANGED <<currentView, selectedTopic>>

\* The interval brings timeLeft to 0 and ExamView renders the last question
\* with timeLeft = 0; the "Finish Exam" click arrives before the timer effect
\* of that render has run.  The click's finishExam and then the effect's
\* finishExam both run as closures of that one render (same questions,
\* answers and onSaveResult, hence the same `user`).
FinishClickBeforeTimerEffect ==
    /\ ExamShown
    /\ ExamQuestionShown(ev)
    /\ ev.timeLeft = 1
    /\ ev.currentQuestionIndex = Len(Questions(ev)) - 1
    /\ LET W0 == [World EXCEPT !.ev.timeLeft = 0]
           W1 == FinishExam(W0, user)
           W2 == AppHandleSaveExamResult(W1, user,
                    [score |-> calculateScore(W0.ev), total |-> Len(Questions(W0.ev))])
       IN Commit(W2, [NoOp EXCEPT !.op = "examFinishRace"])
    /\ UNCHANGED <<currentView, selectedTopic>>

\* the textarea of task i (disabled once the task is checked)
TypeAnswer(i, text) ==
    /\ TopicShown
    /\ PracticeContentShown(tv)
    /\ ~IsChecked(tv, i)
    /\ Commit([World EXCEPT !.tv.userAnswers[i] = text],
              [NoOp EXCEPT !.op = "type", !.before = <<i>>])
    /\ UNCHANGED <<currentView, selectedTopic>>

\* a click on the "Check Answer" button of task i
CheckAnswer(i) ==
    /\ TopicShown
    /\ PracticeContentShown(tv)
    /\ SumOver(tv.evalCalls, TaskIndices) < MaxEvals
    /\ Commit(ClickCheckAnswer(World, i), [NoOp EXCEPT !.op = "check", !.before = <<i>>])
    /\ UNCHANGED <<currentView, selectedTopic>>

\* checkUserAnswer resolves with result
EvalResolves(r, result) ==
    /\ r \in pending
    /\ r.kind = "evaluate"
    /\ LET W1 == [World EXCEPT !.pending = @ \ {r}]
       IN Commit(IF r.live
                 THEN [W1 EXCEPT !.tv.taskFeedback =
                          SetTaskFeedback(@, r.index,
                              [text |-> result.feedback, loading |-> FALSE,
                               isCorrect |-> result.isCorrect])]
                 ELSE W1,
                 [NoOp EXCEPT !.op = "evaluated", !.word = result.isCorrect,
                              !.before = <<r.index>>])
    /\ UNCHANGED <<currentView, selectedTopic>>

\* checkUserAnswer throws
EvalFails(r) ==
    /\ r \in pending
    /\ r.kind = "evaluate"
    /\ LET W1 == [World EXCEPT !.pending = @ \ {r}]
       IN Commit(IF r.live
                 THEN [W1 EXCEPT !.tv.taskFeedback =
                          SetTaskFeedback(@, r.index, FailedFeedback(FeedbackError))]
                 ELSE W1,
                 [NoOp EXCEPT !.op = "evalFailed", !.before = <<r.index>>])
    /\ UNCHANGED <<currentView, selectedTopic>>

\* the questions of the mounted Quiz
QuizQuestions == comprehensionQuiz(tv.practiceContent)

\* a click on an option of the current quiz question (disabled once answered)
QuizAnswerSelect(option) ==
    /\ TopicShown
    /\ PracticeContentShown(tv)
    /\ QuizQuestionShown(tv.quiz, QuizQuestions)
    /\ ~tv.quiz.showResult
    /\ Includes(QuizQuestions[tv.quiz.currentQuestionIndex + 1].options, option)
    /\ Commit([World EXCEPT !.tv.quiz = QuizHandleAnswerSelect(@, QuizQuestions, option)],
              [NoOp EXCEPT !.op = "quizSelect", !.word = option])
    /\ UNCHANGED <<currentView, selectedTopic>>

\* the "Next Question" / "Finish Quiz" button (shown with the result)
QuizNext ==
    /\ TopicShown
    /\ PracticeContentShown(tv)
    /\ QuizQuestionShown(tv.quiz, QuizQuestions)
    /\ tv.quiz.showResult
    /\ Commit([World EXCEPT !.tv.quiz = QuizHandleNext(@, QuizQuestions)],
              [NoOp EXCEPT !.op = "quizNext"])
    /\ UNCHANGED <<currentView, selectedTopic>>

\* the "Restart Quiz" button of the "Quiz Complete!" screen
QuizRestart ==
    /\ TopicShown
    /\ PracticeContentShown(tv)
    /\ QuizCompleteShown(tv.quiz, QuizQuestions)
    /\ Commit([World EXCEPT !.tv.quiz = QuizHandleRestart(@)],
              [NoOp EXCEPT !.op = "quizRestart"])
    /\ UNCHANGED <<currentView, selectedTopic>>

ContentsOf(kind) == IF kind = "lesson" THEN LessonContents ELSE PracticeContents

\* the generator answers request r with content; stored: the cache write worked
GeneratorResolves(r, content, stored) ==
    /\ r \in pending
    /\ r.kind \in Kinds
    /\ content \in ContentsOf(r.kind)
    /\ LET key == cacheKey(r.kind, r.level, r.topic)
           W1 == StoreResult([World EXCEPT !.pending = @ \ {r}], key, content, stored)
       IN Commit(Render(ContinueAfterSuccess(W1, r, content)),
                 [NoOp EXCEPT !.op = "resolved"])
    /\ UNCHANGED <<currentView, selectedTopic>>

\* the generator call of request r fails (transport failure, malformed answer)
GeneratorFails(r) ==
    /\ r \in pending
    /\ r.kind \in Kinds
    /\ Commit(Render(ContinueAfterFailure([World EXCEPT !.pending = @ \ {r}], r)),
              [NoOp EXCEPT !.op = "failed"])
    /\ UNCHANGED <<currentView, selectedTopic>>

\* The steps of the program, with the inputs drawn from the given sets:
\* the levels a user picks, what the generator answers for a lesson and for a
\* practice session, and whether a cache write can fail (FALSE \in stores).
NextOver(levels, lessons, practices, stores) ==
    \/ \E n \in Names, p \in {"pw1"} : SignUp(n, "A1", p)
    \/ \E n \in Names : SignUpRejected(n)
    \/ \E n \in Names, p \in Passwords : Login(n, p)
    \/ \E n \in Names, p \in Passwords : LoginRejected(n, p)
    \/ Logout
    \/ \E t \in Topics : SelectTopic(t)
    \/ BackToDashboard
    \/ \E l \in levels : LevelChange(l)
    \/ GoToAccount
    \/ GeneratePractice
    \/ \E w \in Words : VocabToggle(w)
    \/ \E r \in pending, c \in lessons \cup practices, b \in stores :
            GeneratorResolves(r, c, b)
    \/ \E r \in pending : GeneratorFails(r)

\* The topic-learning slice: one answer per generator request kind, a working cache.
Next == NextOver(Levels, {[id |-> "L1", vocabulary |-> <<"w1">>]}, {[id |-> "P1"]}, {TRUE})

Spec == Init /\ [][Next]_vars

\* The exam slice: an account, the dashboard's exam button and the ExamView.
NextExam ==
    \/ \E n \in Names : SignUp(n, "A1", "pw1")
    \/ \E n \in Names, p \in Passwords : Login(n, p)
    \/ Logout
    \/ GoToAccount
    \/ BackToDashboard
    \/ StartExam
    \/ \E r \in pending, paper \in ExamPapers : ExamResolves(r, paper)
    \/ \E r \in pending : ExamFails(r)
    \/ ClickStartExam
    \/ Tick
    \/ \E o \in Elems(Options) : ExamAnswerSelect(o)
    \/ ExamNext
    \/ ExamPrev
    \/ ClickFinishExam

SpecExam == Init /\ [][NextExam]_vars

\* The exam-taking slice: one user sits exams from loading to the finish, by
\* the button or by the countdown, answering and overwriting answers.
NextScore ==
    \/ \E n \in Names : SignUp(n, "A1", "pw1")
    \/ BackToDashboard
    \/ StartExam
    \/ \E r \in pending, paper \in ExamPapers : ExamResolves(r, paper)
    \/ ClickStartExam
    \/ Tick
    \/ \E o \in Elems(Options) : ExamAnswerSelect(o)
    \/ ExamNext
    \/ ExamPrev
    \/ ClickFinishExam

SpecScore == Init /\ [][NextScore]_vars

\* The exam-fetch slice: ExamViews are mounted, their fetch succeeds or fails,
\* and the user goes on from there.
NextFetch ==
    \/ \E n \in Names : SignUp(n, "A1", "pw1")
    \/ GoToAccount
    \/ BackToDashboard
    \/ StartExam
    \/ \E r \in pending : ExamResolves(r, <<[options |-> Options, correctAnswer |-> "a"]>>)
    \/ \E r \in pending : ExamFails(r)
    \/ ClickStartExam
    \/ Tick
    \/ \E o \in Elems(Options) : ExamAnswerSelect(o)
    \/ ClickFinishExam

SpecFetch == Init /\ [][NextFetch]_vars

\* The exam-finish slice: the exam-taking slice with the Finish click that
\* races the countdown's last tick.
NextFinish ==
    \/ NextScore
    \/ FinishClickBeforeTimerEffect

SpecFinish == Init /\ [][NextFinish]_vars

\* The countdown slice: exams of the requested length or shorter run down to
\* zero; only the first question can be answered.
NextTimeout ==
    \/ \E n \in Names : SignUp(n, "A1", "pw1")
    \/ BackToDashboard
    \/ StartExam
    \/ \E r \in pending, paper \in ExamPapers \cup {RequestedPaper} : ExamResolves(r, paper)
    \/ ClickStartExam
    \/ Tick
    \/ \E o \in Elems(Options) : ExamAnswerSelect(o)
    \/ ClickFinishExam

SpecTimeout == Init /\ [][NextTimeout]_vars

\* The cache slice: topics are opened, left and reopened at either level, the
\* generator may answer one lesson key with different contents, and the cache
\* write may fail.
NextCache ==
    \/ \E n \in Names : SignUp(n, "A1", "pw1")
    \/ \E t \in Topics : SelectTopic(t)
    \/ BackToDashboard
    \/ \E l \in Levels : LevelChange(l)
    \/ GeneratePractice
    \/ \E r \in pending, c \in LessonContents \cup {[id |-> "P1"]}, b \in BOOLEAN :
            GeneratorResolves(r, c, b)
    \/ \E r \in pending : GeneratorFails(r)

SpecCache == Init /\ [][NextCache]_vars

\* The task slice: within one topic session, practice is generated and
\* regenerated, and the answer of its first task typed, submitted and evaluated.
NextTasks ==
    \/ \E n \in Names : SignUp(n, "A1", "pw1")
    \/ SelectTopic("t1")
    \/ GeneratePractice
    \/ \E r \in pending, c \in {[id |-> "L1", vocabulary |-> <<"w1">>], [id |-> "P1"]} :
            GeneratorResolves(r, c, TRUE)
    \/ \E text \in AnswerTexts : TypeAnswer(0, text)
    \/ CheckAnswer(0)
    \/ \E r \in pending, result \in EvalResults : EvalResolves(r, result)
    \/ \E r \in pending : EvalFails(r)

SpecTasks == Init /\ [][NextTasks]_vars

\* The evaluation slice: the tasks of one generated practice are answered and
\* evaluated in any order, several evaluations in flight together.
NextEvals ==
    \/ \E n \in Names : SignUp(n, "A1", "pw1")
    \/ SelectTopic("t1")
    \/ GeneratePractice
    \/ \E r \in pending, c \in {[id |-> "L1", vocabulary |-> <<"w1">>], [id |-> "P1"]} :
            GeneratorResolves(r, c, TRUE)
    \/ \E i \in TaskIndices : TypeAnswer(i, "x")
    \/ \E i \in TaskIndices : CheckAnswer(i)
    \/ \E r \in pending : EvalResolves(r, [feedback |-> "fb", isCorrect |-> "true"])
    \/ \E r \in pending : EvalFails(r)

SpecEvals == Init /\ [][NextEvals]_vars

\* The history slice: a topic's lesson fetch and an exam in one run.
NextHistory ==
    \/ \E n \in Names : SignUp(n, "A1", "pw1")
    \/ SelectTopic("t1")
    \/ BackToDashboard
    \/ \E l \in Levels : LevelChange(l)
    \/ \E r \in pending : GeneratorResolves(r, [id |-> "L1", vocabulary |-> <<"w1">>], TRUE)
    \/ StartExam
    \/ \E r \in pending : ExamResolves(r, <<[options |-> Options, correctAnswer |-> "a"]>>)
    \/ ClickStartExam
    \/ \E o \in {"a"} : ExamAnswerSelect(o)
    \/ ClickFinishExam

SpecHistory == Init /\ [][NextHistory]_vars

\* The persistence slice: two accounts on one device, and every handler that
\* stores a user: progress updates, level changes and exam results.
NextPersist ==
    \/ \E n \in AllNames : SignUp(n, "A1", "pw1")
    \/ \E n \in AllNames : Login(n, "pw1")
    \/ Logout
    \/ SelectTopic("t1")
    \/ BackToDashboard
    \/ \E l \in Levels : LevelChange(l)
    \/ \E r \in pending : GeneratorResolves(r, [id |-> "L1", vocabulary |-> <<"w1">>], TRUE)
    \/ StartExam
    \/ \E r \in pending : ExamResolves(r, <<[options |-> Options, correctAnswer |-> "a"]>>)
    \/ ClickStartExam
    \/ ClickFinishExam

SpecPersist == Init /\ [][NextPersist]_vars

\* The vocabulary slice: a lesson with two words, toggled in any order.
NextVocab ==
    \/ \E n \in Names : SignUp(n, "A1", "pw1")
    \/ \E n \in Names, p \in Passwords : Login(n, p)
    \/ Logout
    \/ \E t \in Topics : SelectTopic(t)
    \/ BackToDashboard
    \/ GeneratePractice
    \/ \E w \in Words : VocabToggle(w)
    \/ \E r \in pending, c \in {[id |-> "L2", vocabulary |-> <<"w1", "w2">>], [id |-> "P1"]} :
            GeneratorResolves(r, c, TRUE)

SpecVocab == Init /\ [][NextVocab]_vars

\* The loading slice: every kind of generator call (lesson, practice, answer
\* evaluation, exam) is issued, and succeeds or fails, in a view that stays
\* mounted until its calls have settled.
Settle ==
    \/ \E r \in pending, c \in {[id |-> "L1", vocabulary |-> <<"w1">>], [id |-> "P1"]} :
            GeneratorResolves(r, c, TRUE)
    \/ \E r \in pending : GeneratorFails(r)
    \/ \E r \in pending : EvalResolves(r, [feedback |-> "fb", isCorrect |-> "true"])
    \/ \E r \in pending : EvalFails(r)
    \/ \E r \in pending : ExamResolves(r, <<[options |-> Options, correctAnswer |-> "a"]>>)
    \/ \E r \in pending : ExamFails(r)

NextLoading ==
    \/ \E n \in Names : SignUp(n, "A1", "pw1")
    \/ SelectTopic("t1")
    \/ GeneratePractice
    \/ TypeAnswer(0, "x")
    \/ CheckAnswer(0)
    \/ StartExam
    \/ Settle

\* Every awaited generator promise settles: a pending call is answered or fails.
SpecLoading == Init /\ [][NextLoading]_vars /\ WF_vars(Settle)

\* The accounts slice: two usernames sign up with either password, log in and
\* out, change their level, and sign-ups and logins are refused.
NextAccounts ==
    \/ \E n \in AllNames, p \in Passwords : SignUp(n, "A1", p)
    \/ \E n \in AllNames : SignUpRejected(n)
    \/ \E n \in AllNames, p \in Passwords : Login(n, p)
    \/ \E n \in AllNames, p \in Passwords : LoginRejected(n, p)
    \/ Logout
    \/ \E l \in Levels : LevelChange(l)

SpecAccounts == Init /\ [][NextAccounts]_vars

\* The exam-leaving slice: the exam-fetch slice with logout and login, so that
\* an exam is left from the header (account view, logout) while it is loading,
\* ready or running, and the user comes back.
NextLeave ==
    \/ NextFetch
    \/ Logout
    \/ \E n \in Names : Login(n, "pw1")

SpecLeave == Init /\ [][NextLeave]_vars

\* The quiz slice: a practice session is generated (either quiz length),
\* regenerated, and its comprehension quiz is answered, finished and restarted.
NextQuiz ==
    \/ \E n \in Names : SignUp(n, "A1", "pw1")
    \/ SelectTopic("t1")
    \/ GeneratePractice
    \/ \E r \in pending, c \in {[id |-> "L1", vocabulary |-> <<"w1">>]} \cup PracticeContents,
          b \in BOOLEAN : GeneratorResolves(r, c, b)
    \/ \E o \in Elems(Options) : QuizAnswerSelect(o)
    \/ QuizNext
    \/ QuizRestart

SpecQuiz == Init /\ [][NextQuiz]_vars

\* The late-practice slice.  It starts in the state the session is in after:
\* sign-up at A1, topic t1 opened and left with its lesson fetch in flight,
\* level changed to A2, topic t2 opened and its lesson loaded, practice asked
\* for (fetch in flight), the answer to t1's lesson fetch (which stores the A1
\* user of its closure, so that the [level, topic] effect runs fetchLesson
\* again and clears isLoading.practice), and the answer to that lesson fetch.
\* The calls made so far are not counted against MaxCalls.
InitialWorld ==
    [user |-> Null, accounts |-> [n \in AllNames |-> Null], tv |-> Null, ev |-> Null,
     pending |-> {}, cache |-> [k \in CacheKeys |-> Null],
     genCalls |-> [k \in CacheKeys |-> 0], firstResult |-> [k \in CacheKeys |-> Null],
     pushed |-> FALSE, rerun |-> FALSE]

\* the answer (content, cached) to the lesson request of W that is live or not
LessonAnswered(W, live, content) ==
    LET r == CHOOSE q \in W.pending : q.kind = "lesson" /\ q.live = live
        W1 == StoreResult([W EXCEPT !.pending = @ \ {r}],
                          cacheKey(r.kind, r.level, r.topic), content, TRUE)
    IN Render(ContinueAfterSuccess(W1, r, content))

LateAnswerWorld ==
    LET L1 == [id |-> "L1", vocabulary |-> <<"w1">>]
        u0 == [name |-> "ann", level |-> "A1",
               progress |-> [t \in Topics |-> Null], examHistory |-> <<>>]
        W1 == [InitialWorld EXCEPT
                  !.accounts["ann"] = [password |-> btoa("pw1"), data |-> u0],
                  !.user = u0]
        W2 == FetchLesson([W1 EXCEPT !.tv = MountedTopicView("A1", "t1")], u0, "A1", "t1")
        W3 == Unmount(W2)
        u1 == [W3.user EXCEPT !.level = "A2"]
        W4 == [W3 EXCEPT !.user = u1, !.accounts = persistUserUpdate(W3.accounts, u1)]
        W5 == FetchLesson([W4 EXCEPT !.tv = MountedTopicView("A2", "t2")], u1, "A2", "t2")
        W6 == LessonAnswered(W5, TRUE, L1)
        W7 == HandleGeneratePractice(W6, W6.user, W6.user.level, W6.tv.topic)
        W8 == LessonAnswered(W7, FALSE, L1)
        W9 == LessonAnswered(W8, TRUE, L1)
    IN [W9 EXCEPT !.genCalls = [k \in CacheKeys |-> 0], !.pushed = FALSE, !.rerun = FALSE]

InitLateAnswer ==
    /\ accounts = LateAnswerWorld.accounts
    /\ user = LateAnswerWorld.user
    /\ currentView = "topic"
    /\ selectedTopic = "t2"
    /\ cache = LateAnswerWorld.cache
    /\ genCalls = LateAnswerWorld.genCalls
    /\ firstResult = LateAnswerWorld.firstResult
    /\ pending = LateAnswerWorld.pending
    /\ tv = RenderQuiz(LateAnswerWorld.tv)
    /\ ev = Null
    /\ lastOp = NoOp

NextLateAnswer ==
    \/ GeneratePractice
    \/ \E r \in pending, c \in PracticeContents : GeneratorResolves(r, c, TRUE)
    \/ \E o \in Elems(Options) : QuizAnswerSelect(o)
    \/ QuizNext
    \/ QuizRestart

SpecLateAnswer == InitLateAnswer /\ [][NextLateAnswer]_vars

\* ------------------------------------------------------------------ claims
Sections(u, topic) == ProgressOf(u, topic).completedSections
Vocabulary(u, topic) == ProgressOf(u, topic).completedVocabulary

\* the step is the generator's answer to request r
Answered(r) == r \in pending /\ r \notin pending' /\ lastOp'.op = "resolved"
\* the step is the answer or the failure of request r
Settled(r) == r \in pending /\ r \notin pending' /\ lastOp'.op \in {"resolved", "failed"}
\* the step opened a topic, or asked for practice, and the cache answered
LessonHit == lastOp'.op = "selectTopic" /\ tv'.lessonContent # Null
PracticeHit == lastOp'.op = "generatePractice" /\ tv'.practiceContent # Null

\* C1: a lesson fetch that was issued with empty progress for topic T and
\* succeeds leaves T's completedSections exactly <<lesson>>; a practice fetch
\* issued when T's completedSections was <<lesson>> and succeeding leaves it
\* <<lesson, practice>>, and the dashboard reports T complete.
C1_TopicCompletion ==
    [][ /\ \A r \in pending : Answered(r) =>
            /\ (r.kind = "lesson" /\ r.user.progress[r.topic] = Null)
                    => Sections(user', r.topic) = <<"lesson">>
            /\ (r.kind = "practice" /\ Sections(r.user, r.topic) = <<"lesson">>)
                    => /\ Sections(user', r.topic) = <<"lesson", "practice">>
                       /\ isTopicComplete(user', r.topic)
        /\ (LessonHit /\ user.progress[tv'.topic] = Null)
                => Sections(user', tv'.topic) = <<"lesson">>
        /\ (PracticeHit /\ Sections(user, tv.topic) = <<"lesson">>)
                => /\ Sections(user', tv.topic) = <<"lesson", "practice">>
                   /\ isTopicComplete(user', tv.topic)
      ]_vars

\* the practice fetch of a session whose lesson was fetched has just succeeded
\* and the topic is complete
C1_Witness ==
    /\ lastOp.op = "resolved" /\ lastOp.pushed
    /\ tv # Null /\ tv.lessonContent # Null /\ tv.practiceContent # Null
    /\ user # Null
    /\ Sections(user, tv.topic) = <<"lesson", "practice">>
    /\ isTopicComplete(user, tv.topic)

\* C2: when the lesson fetch and a practice fetch of one topic session were in
\* flight together and both have succeeded, the topic's stored
\* completedSections holds both lesson and practice.
C2_OverlappingFetchesKeepBoth ==
    ( /\ TopicShown
      /\ tv.overlap
      /\ tv.lessonContent # Null /\ tv.practiceContent # Null
      /\ ~tv.isLoading.lesson /\ ~tv.isLoading.practice
      /\ ~\E r \in pending : r.live )
    => /\ Includes(Sections(user, tv.topic), "lesson")
       /\ Includes(Sections(user, tv.topic), "practice")
       /\ Includes(Sections(accounts[user.name].data, tv.topic), "lesson")
       /\ Includes(Sections(accounts[user.name].data, tv.topic), "practice")

\* C3: the answer (or failure) of a request whose topic session has been left
\* changes neither the in-memory user nor the persisted accounts.
C3_LateResponseNotApplied ==
    [][ \A r \in pending : (Settled(r) /\ ~r.live) =>
            /\ user' = user
            /\ accounts' = accounts ]_vars

\* C4: a section that is in a user's stored completedSections stays there.
C4_SectionsOnlyGrow ==
    [][ \A n \in Names, t \in Topics :
            (accounts[n] # Null /\ accounts'[n] # Null) =>
                Elems(Sections(accounts[n].data, t))
                    \subseteq Elems(Sections(accounts'[n].data, t)) ]_vars

\* C5: a step that marks a section complete leaves the topic's stored
\* completedVocabulary as it was immediately before the step.
C5_SectionUpdateKeepsVocabulary ==
    [][ \A r \in pending :
            (Answered(r) /\ lastOp'.pushed /\ accounts[r.user.name] # Null) =>
                Vocabulary(accounts'[r.user.name].data, r.topic)
                    = Vocabulary(accounts[r.user.name].data, r.topic) ]_vars

\* every copy of a user's data the program holds: in memory, persisted, and
\* captured by a request in flight
UserCopies ==
    (IF user = Null THEN {} ELSE {user})
        \cup {accounts[n].data : n \in {m \in Names : accounts[m] # Null}}
        \cup {r.user : r \in {q \in pending : q.kind \in Kinds}}

\* C6: completedSections never holds a section twice; opening a topic whose
\* lesson is already complete, or generating practice that is already
\* complete, changes no field of the user's progress, neither at the click
\* nor when the fetch it issued succeeds.
C6_CompletionIdempotent ==
    [][ /\ \A u \in UserCopies', t \in Topics : NoDuplicates(Sections(u, t))
        /\ \A r \in pending :
              (Answered(r) /\ Includes(Sections(r.user, r.topic), r.kind))
                  => user' = user /\ accounts' = accounts
        /\ (lastOp'.op = "selectTopic" /\ Includes(Sections(user, tv'.topic), "lesson"))
                  => user' = user /\ accounts' = accounts
        /\ (lastOp'.op = "generatePractice" /\ Includes(Sections(user, tv.topic), "practice"))
                  => user' = user /\ accounts' = accounts
      ]_vars

\* practice was generated again for a complete topic and nothing was pushed
C6_Witness ==
    /\ lastOp.op = "generatePractice" /\ ~lastOp.pushed
    /\ tv # Null /\ tv.practiceContent # Null
    /\ Sections(user, tv.topic) = <<"lesson", "practice">>

\* C7: two successive toggles of one word leave the set of completed words of
\* the topic equal to the set before the first toggle.
C7_ToggleTwice ==
    [][ (lastOp.op = "toggle" /\ lastOp'.op = "toggle" /\ lastOp'.word = lastOp.word)
            => Elems(Vocabulary(user', tv'.topic)) = Elems(lastOp.before) ]_vars

\* the second of two toggles of w1, starting from the set {w2}
C7_Witness ==
    /\ lastOp.op = "toggle" /\ lastOp.word = "w1"
    /\ Elems(lastOp.before) = {"w1", "w2"}
    /\ tv # Null /\ user # Null
    /\ Vocabulary(user, tv.topic) = <<"w2">>

\* C8: completedVocabulary never holds a word twice; a toggle of w removes w
\* when it was present, adds it when it was absent, and changes the
\* membership of no other word.
C8_ToggleMembership ==
    [][ /\ \A u \in UserCopies', t \in Topics : NoDuplicates(Vocabulary(u, t))
        /\ lastOp'.op = "toggle" =>
              LET w == lastOp'.word
                  S == Elems(Vocabulary(user, tv.topic))
                  T == Elems(Vocabulary(user', tv.topic))
              IN  /\ (w \in S) => (w \notin T)
                  /\ (w \notin S) => (w \in T)
                  /\ \A x \in Words \ {w} : (x \in S) <=> (x \in T)
      ]_vars

\* w2 has just been toggled off while w1 stays completed
C8_Witness ==
    /\ lastOp.op = "toggle" /\ lastOp.word = "w2"
    /\ Includes(lastOp.before, "w2") /\ Includes(lastOp.before, "w1")
    /\ tv # Null /\ user # Null
    /\ Vocabulary(user, tv.topic) = <<"w1">>

\* the key of the fetch a step issues, or Null: a topic was opened, practice
\* was asked for, or the lesson effect ran again because the level changed
IssuedKey ==
    IF lastOp'.op = "selectTopic" THEN cacheKey("lesson", tv'.level, tv'.topic)
    ELSE IF lastOp'.op = "generatePractice" THEN cacheKey("practice", tv.level, tv.topic)
    ELSE IF /\ lastOp'.op \in {"resolved", "failed"}
            /\ tv # Null /\ tv' # Null /\ tv'.level # tv.level
         THEN cacheKey("lesson", tv'.level, tv'.topic)
    ELSE Null

\* the content the TopicView shows for the kind of key k after the step
ShownFor(k) == IF k.kind = "lesson" THEN tv'.lessonContent ELSE tv'.practiceContent

\* C9 (as amended): once the cache holds an entry for a key, a fetch issued for
\* that key shows the content the cache holds and does not invoke the
\* generator: the key's call count does not grow while the key is cached.
C9_CachedFetchSkipsGenerator ==
    [][ \A k \in CacheKeys : cache[k] # Null =>
            /\ genCalls'[k] = genCalls[k]
            /\ cache'[k] # Null
            /\ IssuedKey = k => ShownFor(k) = JSONparse(cache'[k]) ]_vars

\* a topic was opened again and shows the cached lesson, which is the answer
\* of the second of two generator calls and not the first result
C9_Witness ==
    /\ lastOp.op = "selectTopic"
    /\ tv # Null /\ tv.lessonContent # Null
    /\ LET k == cacheKey("lesson", tv.level, tv.topic)
       IN /\ cache[k] # Null /\ tv.lessonContent = JSONparse(cache[k])
          /\ genCalls[k] = 2
          /\ firstResult[k] # Null /\ firstResult[k] # tv.lessonContent

\* C9 (as stated): after one fetch for a key has succeeded, the key's generator
\* call count is and stays 1, and a later fetch for the key shows the first
\* result.
C9_CallCountStaysOne ==
    [][ \A k \in CacheKeys : firstResult[k] # Null =>
            /\ genCalls'[k] = 1
            /\ (IssuedKey = k /\ ShownFor(k) # Null) => ShownFor(k) = firstResult[k] ]_vars

\* the indices whose answer is the question's correct answer
CorrectIndices(e) ==
    { i \in 1..Len(Questions(e)) :
        e.answers[i] # Null /\ e.answers[i].str = Questions(e)[i].correctAnswer }

\* C10: whenever an exam is loaded, its score is the number of indices whose
\* answer equals the question's correctAnswer, an unanswered slot counting as
\* incorrect; the score saved when the exam finished equals the score computed
\* again from the same answers.
C10_ExamScore ==
    (ev # Null /\ ev.questions # Null) =>
        /\ Len(ev.answers) = Len(Questions(ev))
        /\ calculateScore(ev) = Cardinality(CorrectIndices(ev))
        /\ (ev.examFinished /\ user # Null) =>
              /\ Len(user.examHistory) > 0
              /\ user.examHistory[Len(user.examHistory)].score = calculateScore(ev)

\* an answer has just been overwritten by the correct one while another slot
\* is still unanswered
C10_Witness ==
    /\ lastOp.op = "select"
    /\ lastOp.before # <<Null>> /\ lastOp.before # <<Str(lastOp.word)>>
    /\ ev # Null /\ ev.questions # Null
    /\ \E i \in 1..Len(ev.answers) : ev.answers[i] = Null
    /\ calculateScore(ev) = 1

\* the step is a step of one mounted ExamView and one logged-in user
SameExam == ev # Null /\ ev' # Null /\ user # Null /\ user' # Null

\* C11: for one exam, the step in which it becomes finished appends exactly
\* one ExamResult to the user's history, also when the Finish click races the
\* timeout; no other step of that exam, before or after, changes the history,
\* and a finished exam stays finished.
C11_OneResultPerExam ==
    [][ SameExam =>
          /\ ev.examFinished => (ev'.examFinished /\ user'.examHistory = user.examHistory)
          /\ (~ev.examFinished /\ ev'.examFinished) =>
                /\ Len(user'.examHistory) = Len(user.examHistory) + 1
                /\ SubSeq(user'.examHistory, 1, Len(user.examHistory)) = user.examHistory
                /\ accounts'[user.name].data.examHistory = user'.examHistory
          /\ ~ev'.examFinished => user'.examHistory = user.examHistory
      ]_vars

\* the Finish click and the timeout both asked to finish, one result is stored
C11_Witness ==
    /\ lastOp.op = "examFinishRace"
    /\ ev # Null /\ ev.examFinished /\ ev.timeLeft = 0
    /\ user # Null /\ Len(user.examHistory) = 1

\* C12: the tick that brings the countdown of a started exam to zero finishes
\* the exam and appends exactly one ExamResult, whose score is the recount of
\* the correct answers and whose total is the number of questions; a tick
\* that leaves time on the clock finishes nothing.  With timeLeft = 1, no
\* answer given and the 25 questions asked for, the result is score 0, total 25.
C12_TimeoutFinishes ==
    [][ (SameExam /\ lastOp'.op = "tick") =>
          /\ ev'.timeLeft = ev.timeLeft - 1
          /\ ev'.timeLeft = 0 =>
                /\ ev'.examFinished /\ ~ev'.examStarted
                /\ user'.examHistory =
                      Append(user.examHistory,
                             [score |-> Cardinality(CorrectIndices(ev)),
                              total |-> Len(Questions(ev))])
          /\ ev'.timeLeft > 0 =>
                /\ ~ev'.examFinished
                /\ user'.examHistory = user.examHistory
          /\ ( /\ ev.timeLeft = 1
               /\ Len(Questions(ev)) = ExamLength
               /\ \A i \in 1..Len(ev.answers) : ev.answers[i] = Null )
             => user'.examHistory[Len(user'.examHistory)] = [score |-> 0, total |-> 25]
      ]_vars

\* the countdown of an unanswered 25-question exam has just run out
C12_Witness ==
    /\ lastOp.op = "tick"
    /\ ev # Null /\ ev.examFinished /\ ev.timeLeft = 0
    /\ ev.questions # Null /\ Len(Questions(ev)) = 25
    /\ \A i \in 1..Len(ev.answers) : ev.answers[i] = Null
    /\ user # Null /\ user.examHistory = <<[score |-> 0, total |-> 25]>>

\* C13: once task i has been evaluated and its feedback is shown, a further
\* click on its "Check Answer" button changes nothing: the feedback, the
\* answers and the requests in flight stay as they are and no generator call
\* is made.
C13_SecondSubmissionNoOp ==
    [][\A i \in TaskIndices :
          (lastOp'.op = "check" /\ lastOp'.before = <<i>> /\ tv # Null /\ IsChecked(tv, i))
              => (tv' = tv /\ pending' = pending /\ genCalls' = genCalls /\ user' = user)]_vars
C13_Witness ==
    /\ lastOp.op = "check"
    /\ tv # Null
    /\ IsChecked(tv, lastOp.before[1])
    /\ tv.evalCalls[lastOp.before[1]] = 1

\* C14: the dashboard check mark, the header's completed-topic count and the
\* account view's "Completed Topics" list all report a topic as complete
\* exactly when its completedSections holds both "lesson" and "practice".
BothSections(u, t) ==
    Includes(Sections(u, t), "lesson") /\ Includes(Sections(u, t), "practice")
C14_ViewsAgreeOnComplete ==
    user # Null =>
        /\ \A t \in Topics :
              /\ isTopicComplete(user, t) <=> BothSections(user, t)
              /\ HeaderIsTopicComplete(t, user.progress) <=> BothSections(user, t)
              /\ t \in completedTopics(user) <=> BothSections(user, t)
        /\ completedTopicsCount(user) =
              Cardinality({t \in curriculum(user.level) : BothSections(user, t)})

\* C15: within one topic session at most one practice fetch is in flight, and
\* a generate/regenerate request made while a practice fetch of the session is
\* in flight is ignored: it changes no state and calls no generator.
PracticeInFlight == {r \in pending : r.kind = "practice" /\ r.live}
C15_OnePracticeFetchInFlight ==
    /\ Cardinality(PracticeInFlight) <= 1
    /\ (TopicShown /\ PracticeInFlight # {})
          => HandleGeneratePractice(World, user, user.level, tv.topic) = World

\* C16: after a practice fetch failed the user can ask for practice again
\* without leaving the topic: whenever the session shows a practice error and
\* no practice fetch is loading, the practice pane offers an enabled button
\* that calls handleGeneratePractice.
C16_RetryAfterPracticeFailure ==
    (TopicShown /\ tv.error = PracticeError /\ ~tv.isLoading.practice)
        => PracticeButtonEnabled(tv)

\* C17: a user's exam history is append-only: in every step the history the
\* user had before is a prefix of the history the user has after, whatever the
\* step is (exam finish, progress update, level change, navigation, a topic
\* fetch resolving after an exam result was saved).
IsPrefix(s, t) == Len(s) <= Len(t) /\ \A i \in 1..Len(s) : s[i] = t[i]
C17_ExamHistoryAppendOnly ==
    [][(user # Null /\ user' # Null /\ user.name = user'.name)
          => IsPrefix(user.examHistory, user'.examHistory)]_vars

LessonErrorShown(t) == ~t.isLoading.lesson /\ t.error # "none" /\ t.lessonContent = Null
C19_AxesIndependent ==
    [][\A r \in pending :
          (Settled(r) /\ r.live /\ tv # Null /\ tv' # Null) =>
              /\ r.kind = "lesson" =>
                    /\ tv'.practiceContent = tv.practiceContent
                    /\ tv'.isLoading.practice = tv.isLoading.practice
                    /\ PracticeButtonEnabled(tv') = PracticeButtonEnabled(tv)
                    /\ PracticeContentShown(tv') = PracticeContentShown(tv)
              /\ r.kind = "practice" =>
                    /\ tv'.lessonContent = tv.lessonContent
                    /\ tv'.isLoading.lesson = tv.isLoading.lesson
                    /\ LessonErrorShown(tv') = LessonErrorShown(tv)]_vars

\* C20: finishing by timeout and finishing by the Finish button are
\* equivalent.  A step of either kind that finishes the exam leaves questions
\* and answers as they were, sets examFinished and appends the same
\* ExamResult: its score and total depend on the questions and the answers
\* only; and in every state of a running exam the timeout path and the
\* Finish path lead to the same user, the same stored accounts and the same
\* exam flags.
ResultOf(e) == [score |-> Cardinality(CorrectIndices(e)), total |-> Len(Questions(e))]
C20_TimeoutEqualsFinish ==
    [][ /\ (SameExam /\ lastOp'.op \in {"tick", "examFinish"}
              /\ ~ev.examFinished /\ ev'.examFinished) =>
            /\ ev'.questions = ev.questions /\ ev'.answers = ev.answers
            /\ ~ev'.examStarted
            /\ user'.examHistory = Append(user.examHistory, ResultOf(ev))
        /\ (ev # Null /\ user # Null /\ ExamQuestionShown(ev)) =>
            LET Wt == TimerEffect([World EXCEPT !.ev.timeLeft = 0], user)
                Wf == FinishExam(World, user)
            IN /\ Wt.user = Wf.user
               /\ Wt.accounts = Wf.accounts
               /\ Wt.ev.examFinished /\ Wf.ev.examFinished
               /\ Wt.ev.examStarted = Wf.ev.examStarted
               /\ Wt.ev.answers = Wf.ev.answers
      ]_vars
\* an exam with a correct answer given has been finished by the countdown
C20_Witness ==
    /\ lastOp.op = "tick"
    /\ ev # Null /\ user # Null
    /\ ev.examFinished /\ ev.timeLeft = 0
    /\ Len(user.examHistory) = 1
    /\ user.examHistory[1].score > 0
    /\ user.examHistory[1] = ResultOf(ev)

\* C21: when the session's lesson fetch fails, the session is left with the
\* lesson error surfaced and no lesson content, the lesson no longer loading;
\* the failing step adds no section, pushes no progress update and calls no
\* generator; and while the lesson error stands the generator is not called
\* for a lesson until a topic is entered again.
LessonCalls(g) == SumOver(g, {k \in CacheKeys : k.kind = "lesson"})
C21_LessonFailure ==
    [][ /\ \A r \in pending :
              (r.kind = "lesson" /\ r.live /\ r \notin pending' /\ lastOp'.op = "failed"
                  /\ tv # Null /\ tv' # Null) =>
                  /\ tv'.error = LessonError
                  /\ tv'.lessonContent = Null
                  /\ ~tv'.isLoading.lesson
                  /\ user' = user /\ accounts' = accounts /\ ~lastOp'.pushed
                  /\ genCalls' = genCalls
        /\ (tv # Null /\ tv' # Null /\ lastOp'.op # "selectTopic"
              /\ tv.error = LessonError /\ ~tv.isLoading.lesson) =>
                  LessonCalls(genCalls') = LessonCalls(genCalls)
      ]_vars

\* C22: a click on "Check Answer" of task i is a no-op (no generator call,
\* feedback unchanged) when the answer of i is empty or whitespace, or when an
\* evaluation of i is in flight; hence at most one evaluation per task index
\* of the session is in flight at any time.
EvalsInFlight(p, i) == {r \in p : r.kind = "evaluate" /\ r.live /\ r.index = i}
C22_SubmissionGuards ==
    [][\A i \in TaskIndices :
          /\ (lastOp'.op = "check" /\ lastOp'.before = <<i>> /\ tv # Null
                /\ (Trim(tv.userAnswers[i]) = "" \/ EvalsInFlight(pending, i) # {}))
              => (tv' = tv /\ pending' = pending /\ genCalls' = genCalls)
          /\ Cardinality(EvalsInFlight(pending', i)) <= 1
      ]_vars

\* C23: within one topic session the generator is asked to evaluate each task
\* index at most once, whatever the submissions, results, failures and
\* practice regenerations.
C23_OneEvaluationPerIndex ==
    tv # Null => \A i \in TaskIndices : tv.evalCalls[i] <= 1

\* C24: an accepted submission of task i sets the feedback of i to loading and
\* asks the generator; when the evaluation resolves, the feedback of i becomes
\* the generator's text and verdict with loading false; when it fails, the
\* feedback of i becomes the error message with loading false and isCorrect
\* undefined, neither true nor false.
EvalSettled(r) == r \in pending /\ r \notin pending' /\ r.kind = "evaluate" /\ r.live
C24_FeedbackLifecycle ==
    [][ /\ \A i \in TaskIndices :
              (lastOp'.op = "check" /\ lastOp'.before = <<i>> /\ tv # Null
                  /\ CheckButtonEnabled(tv, i)) =>
                  /\ tv'.taskFeedback[i] = [text |-> "", loading |-> TRUE, isCorrect |-> "undefined"]
                  /\ Cardinality(EvalsInFlight(pending', i)) = Cardinality(EvalsInFlight(pending, i)) + 1
        /\ \A r \in pending :
              (EvalSettled(r) /\ tv' # Null) =>
                  /\ lastOp'.op = "evaluated" =>
                        /\ \E result \in EvalResults :
                              /\ result.isCorrect = lastOp'.word
                              /\ tv'.taskFeedback[r.index] =
                                    [text |-> result.feedback, loading |-> FALSE,
                                     isCorrect |-> result.isCorrect]
                  /\ lastOp'.op = "evalFailed" =>
                        tv'.taskFeedback[r.index] =
                            [text |-> FeedbackError, loading |-> FALSE, isCorrect |-> "undefined"]
      ]_vars
\* an evaluation has just failed and its error is the task's feedback
C24_Witness ==
    /\ lastOp.op = "evalFailed"
    /\ tv # Null
    /\ tv.taskFeedback[lastOp.before[1]] # Null
    /\ tv.taskFeedback[lastOp.before[1]].text = FeedbackError
    /\ tv.taskFeedback[lastOp.before[1]].isCorrect = "undefined"

\* C25: evaluations of different task indices can be in flight together, and
\* in whatever order they resolve or fail, the step that settles the
\* evaluation of index i changes the feedback of index i only: the feedback of
\* every other index and every typed answer stay as they were.
C25_EvaluationsIndependent ==
    [][\A r \in pending :
          (EvalSettled(r) /\ tv # Null /\ tv' # Null) =>
              /\ \A j \in TaskIndices \ {r.index} :
                    tv'.taskFeedback[j] = tv.taskFeedback[j]
              /\ tv'.userAnswers = tv.userAnswers
              /\ tv'.taskFeedback[r.index] # Null /\ ~tv'.taskFeedback[r.index].loading
      ]_vars
\* an evaluation has just settled while the evaluation of another index is
\* still in flight
C25_Witness ==
    /\ lastOp.op \in {"evaluated", "evalFailed"}
    /\ tv # Null
    /\ IsChecked(tv, lastOp.before[1])
    /\ \E j \in TaskIndices \ {lastOp.before[1]} :
          /\ EvalsInFlight(pending, j) # {}
          /\ tv.taskFeedback[j] # Null /\ tv.taskFeedback[j].loading

\* C26: an accepted generate/regenerate request clears every typed answer and
\* every feedback (and the prior content, unless the cache answers at once),
\* and from then on a task's feedback appears only through a submission made
\* against the shown content: the result of an evaluation that was in flight
\* when the regeneration was requested is not stored as feedback.
C26_RegenerationClearsFeedback ==
    [][ (tv # Null /\ tv' # Null /\ lastOp'.op # "selectTopic") =>
          /\ (lastOp'.op = "generatePractice" /\ ~tv.isLoading.practice) =>
                /\ \A i \in TaskIndices :
                      tv'.userAnswers[i] = "" /\ tv'.taskFeedback[i] = Null
                /\ tv'.isLoading.practice => tv'.practiceContent = Null
          /\ \A i \in TaskIndices :
                (tv.taskFeedback[i] = Null /\ tv'.taskFeedback[i] # Null)
                    => lastOp'.op = "check"
      ]_vars

\* C27: when practice content has been generated in the session and a later
\* regeneration fails, the last content generated is still held and shown
\* after the failure.
C27_FailedRegenerationKeepsContent ==
    [][\A r \in pending :
          (r.kind = "practice" /\ r.live /\ r \notin pending' /\ lastOp'.op = "failed"
              /\ tv # Null /\ tv' # Null /\ tv.lastGoodPractice # Null) =>
              /\ tv'.practiceContent = tv.lastGoodPractice
              /\ PracticeContentShown(tv')
      ]_vars

\* the step is the failure of the lesson or practice request r
Failed(r) == r \in pending /\ r \notin pending' /\ lastOp'.op = "failed" /\ r.kind \in Kinds
KeyOf(r) == cacheKey(r.kind, r.level, r.topic)

\* C28 (as amended): a failed lesson or practice generation stores nothing in
\* the content cache: the failing step leaves every cache entry as it was, so
\* a key no call has succeeded for has no entry after the failure; and a fetch
\* issued for a key without an entry invokes the generator.
C28_FailureCachesNothing ==
    [][ /\ \A r \in pending : Failed(r) => (cache' = cache /\ firstResult' = firstResult)
        /\ \A k \in CacheKeys :
              /\ (firstResult'[k] = Null) => cache'[k] = Null
              /\ (cache'[k] = Null /\ IssuedKey = k) => genCalls'[k] = genCalls[k] + 1
      ]_vars
\* a topic was opened again after its lesson generation had failed, and the
\* generator was called a second time
C28_Witness ==
    /\ lastOp.op = "selectTopic"
    /\ tv # Null
    /\ LET k == cacheKey("lesson", tv.level, tv.topic)
       IN /\ genCalls[k] = 2
          /\ cache[k] = Null /\ firstResult[k] = Null
          /\ Cardinality({r \in pending : r.kind \in Kinds /\ KeyOf(r) = k}) = 1

\* C28 (as stated): after a failure the cache has no entry for the key of the
\* failed call.
C28_NoEntryAfterFailure ==
    [][\A r \in pending : Failed(r) => cache'[KeyOf(r)] = Null]_vars

\* C29: once an exam is finished it stays finished: no later step of the same
\* ExamView, pressing Start again included, restarts the countdown, shows the
\* questions for answering, changes the answers or the score reported, or
\* appends another ExamResult.
C29_FinishedIsFinal ==
    [][ (SameExam /\ ev.examFinished) =>
          /\ ev'.examFinished
          /\ ev'.timeLeft = ev.timeLeft
          /\ ~ExamQuestionShown(ev')
          /\ ev'.answers = ev.answers /\ ev'.questions = ev.questions
          /\ calculateScore(ev') = calculateScore(ev)
          /\ user'.examHistory = user.examHistory
          /\ accounts' = accounts
      ]_vars
\* Start was pressed again on an exam the countdown had finished
C29_Witness ==
    /\ lastOp.op = "examStart"
    /\ ev # Null /\ user # Null
    /\ ev.examFinished /\ ev.examStarted /\ ev.timeLeft = 0
    /\ ExamResultShown(ev)
    /\ Len(user.examHistory) = 1

\* C30: the exam questions are fetched exactly once per ExamView, when it is
\* created and before any Start: a step issues an exam fetch exactly when it
\* mounts an ExamView, and then exactly one.  The exam is started only with the
\* questions loaded; and once the fetch has failed the error stays, the exam is
\* never started or finished and no ExamResult is appended.
ExamRequests(p) == {r \in p : r.kind = "exam"}
C30_ExamFetchedOnce ==
    [][ LET issued == {r \in ExamRequests(pending') : \A q \in pending : q.id # r.id}
        IN /\ issued # {} => (ev = Null /\ ev' # Null)
           /\ (ev = Null /\ ev' # Null) =>
                 /\ Cardinality(issued) = 1 /\ \A r \in issued : r.live
                 /\ ev'.isLoading /\ ~ev'.examStarted /\ ev'.questions = Null
           /\ ev' # Null =>
                 /\ Cardinality({r \in ExamRequests(pending') : r.live}) =
                        (IF ev'.isLoading THEN 1 ELSE 0)
                 /\ (ev'.examStarted \/ ev'.examFinished) => ExamLoaded(ev')
                 /\ ev'.error # "none" => ev'.questions = Null
           /\ (ev # Null /\ ev' # Null /\ ev.error # "none") =>
                 /\ ev' = ev
                 /\ user' # Null => user'.examHistory = user.examHistory
      ]_vars
\* the fetch of an ExamView has just failed
C30_Witness ==
    /\ lastOp.op = "examFailed"
    /\ ev # Null /\ user # Null
    /\ ev.error = ExamError /\ ~ev.isLoading /\ ~ev.examStarted
    /\ ExamRequests(pending) = {}
    /\ user.examHistory = <<>>

\* C31: when the exam fetch of the mounted ExamView succeeds, the answers array
\* has exactly one slot per question and every slot is unanswered; selecting an
\* option while question i is current overwrites slot i with that option,
\* leaves every other slot and the array's length unchanged, and changes
\* nothing else of the exam state, the user or the stored accounts.
C31_AnswerSlots ==
    [][ /\ (lastOp'.op = "examLoaded" /\ \E r \in pending \ pending' : r.live) =>
              /\ ev' # Null /\ ev'.questions # Null
              /\ Len(ev'.answers) = Len(Questions(ev'))
              /\ \A j \in 1..Len(ev'.answers) : ev'.answers[j] = Null
        /\ lastOp'.op = "select" =>
              /\ ev' = [ev EXCEPT !.answers =
                            [j \in 1..Len(ev.answers) |->
                                IF j = ev.currentQuestionIndex + 1
                                THEN Str(lastOp'.word) ELSE ev.answers[j]]]
              /\ Len(ev'.answers) = Len(Questions(ev))
              /\ user' = user /\ accounts' = accounts
      ]_vars
\* the second question's answer was just overwritten with another option,
\* the first question's answer standing
C31_Witness ==
    /\ lastOp.op = "select"
    /\ ev # Null
    /\ Len(ev.answers) = 2 /\ ev.currentQuestionIndex = 1
    /\ ev.answers[1] # Null
    /\ lastOp.before # <<Null>> /\ lastOp.before # <<ev.answers[2]>>
    /\ ev.answers[2] = Str(lastOp.word)

\* C32: the countdown of a mounted ExamView starts at EXAM_DURATION (1800
\* seconds; ExamSeconds in the model), changes only in a tick of a started and
\* unfinished exam, decreases by exactly one in each tick, and in every
\* reachable state lies between 0 and its starting value.
C32_Countdown ==
    /\ EXAM_DURATION = 1800
    /\ [](ev # Null => ev.timeLeft \in 0..ExamSeconds)
    /\ [][ /\ (ev = Null /\ ev' # Null) => ev'.timeLeft = ExamSeconds
           /\ (ev # Null /\ ev' # Null /\ ev'.timeLeft # ev.timeLeft) =>
                 /\ lastOp'.op = "tick"
                 /\ ev.examStarted /\ ~ev.examFinished
           /\ lastOp'.op = "tick" => ev'.timeLeft = ev.timeLeft - 1
         ]_vars
\* the tick that brought the countdown to zero, and the exam to its end
C32_Witness ==
    /\ lastOp.op = "tick"
    /\ ev # Null
    /\ ev.timeLeft = 0 /\ ev.examFinished /\ ~ev.examStarted

\* C33: the step in which a generator call of a mounted view (lesson,
\* practice, exam, answer evaluation) succeeds or fails ends with the call's
\* loading flag false and with content or an error stored; a failure stores
\* the error, leaves no flag of the call set and changes nothing of the
\* session (user, accounts, view).  With every call settling, a loading flag
\* that is set is eventually followed by the view gone or the flag false with
\* content or an error stored.
SettledIn(ops) == {r \in pending \ pending' : lastOp'.op \in ops /\ r.live}
TopicStored(t, kind) ==
    /\ ~t.isLoading[kind]
    /\ \/ t.error # "none"
       \/ (IF kind = "lesson" THEN t.lessonContent ELSE t.practiceContent) # Null
ExamStored(e) == ~e.isLoading /\ (e.error # "none" \/ e.questions # Null)
FeedbackStored(t, i) ==
    t.taskFeedback[i] # Null /\ ~t.taskFeedback[i].loading /\ t.taskFeedback[i].text # ""
C33_CallsEndLoading ==
    /\ [][ /\ \A r \in SettledIn({"resolved", "failed"}) :
                 tv' # Null /\ TopicStored(tv', r.kind)
           /\ \A r \in SettledIn({"failed"}) : tv'.error # "none"
           /\ \A r \in SettledIn({"evaluated", "evalFailed"}) :
                 tv' # Null /\ FeedbackStored(tv', r.index)
           /\ \A r \in SettledIn({"examLoaded", "examFailed"}) :
                 ev' # Null /\ ExamStored(ev')
           /\ \A r \in SettledIn({"examFailed"}) : ev'.error # "none"
           /\ lastOp'.op \in {"failed", "evalFailed", "examFailed"} =>
                 /\ user' = user /\ accounts' = accounts /\ cache' = cache
                 /\ currentView' = currentView /\ selectedTopic' = selectedTopic
         ]_vars
    /\ \A kind \in Kinds :
          (tv # Null /\ tv.isLoading[kind]) ~> (tv = Null \/ TopicStored(tv, kind))
    /\ (tv # Null /\ tv.taskFeedback[0] # Null /\ tv.taskFeedback[0].loading)
          ~> (tv = Null \/ FeedbackStored(tv, 0))
    /\ (ev # Null /\ ev.isLoading) ~> (ev = Null \/ ExamStored(ev))
\* a practice generation of the mounted view has just failed
C33_Witness ==
    /\ lastOp.op = "failed"
    /\ tv # Null
    /\ tv.error = PracticeError /\ ~tv.isLoading.practice /\ ~tv.isLoading.lesson
    /\ tv.lessonContent # Null /\ tv.practiceContent = Null

\* C34: usernames are unique.  A sign-up succeeds only for a username without
\* an account; a sign-up with a username that has an account fails with the
\* 'Username already exists' error and leaves the stored accounts (the
\* existing account's data and password included) and the session unchanged.
\* Every account is stored under the name of its user, and no step removes an
\* account or changes its password.
C34_UniqueUsernames ==
    /\ [](\A n \in AllNames : accounts[n] # Null => accounts[n].data.name = n)
    /\ [][ /\ lastOp'.op = "signUp" =>
                 /\ accounts[user'.name] = Null
                 /\ \A n \in AllNames \ {user'.name} : accounts'[n] = accounts[n]
           /\ lastOp'.op = "signUpRejected" =>
                 /\ lastOp'.word = UsernameExists
                 /\ \A n \in Elems(lastOp'.before) : accounts[n] # Null
                 /\ accounts' = accounts
                 /\ user' = user /\ currentView' = currentView
                 /\ selectedTopic' = selectedTopic
           /\ \A n \in AllNames : accounts[n] # Null =>
                 accounts'[n] # Null /\ accounts'[n].password = accounts[n].password
         ]_vars
\* a sign-up with the name of an account whose data had changed since its
\* creation, under another password, was refused
C34_Witness ==
    /\ lastOp.op = "signUpRejected"
    /\ user = Null /\ currentView = "welcome"
    /\ \E n \in Elems(lastOp.before) :
          /\ accounts[n] # Null
          /\ accounts[n].data.level = "A2"
          /\ atob(accounts[n].password) = "pw2"

\* C35: the identity of the current user changes only through sign-up, login
\* and logout: a step that changes who the current user is (or whether there
\* is one) is a sign-up, a login from the welcome screen or a logout; and the
\* answer to a request issued in the session of a user who is not the current
\* user changes neither the current user nor the stored accounts.
NameOf(u) == IF u = Null THEN "none" ELSE u.name
C35_IdentityOnlyBySession ==
    [][ /\ NameOf(user') # NameOf(user) =>
             \/ lastOp'.op = "signUp"
             \/ user = Null /\ currentView = "welcome" /\ currentView' = "dashboard"
             \/ user' = Null /\ currentView' = "welcome"
        /\ \A r \in pending :
             (Answered(r) /\ r.user # Null /\ NameOf(user) # r.user.name) =>
                 (user' = user /\ accounts' = accounts)
      ]_vars

\* C36: the step that leaves an unfinished exam (loading, ready or running)
\* appends no ExamResult: it changes no stored account and no data of the
\* user.  Nothing of the left exam finishes afterwards: an answer or a failure
\* of its fetch changes nothing but the set of pending requests, no countdown
\* runs without a mounted exam, and a history grows only in the step in which
\* the mounted exam of the current user goes from unfinished to finished.
HistoryOf(a) == IF a = Null THEN <<>> ELSE a.data.examHistory
QuizMounted(t) == t # Null /\ PracticeContentShown(t)
QuizOf(t) == comprehensionQuiz(t.practiceContent)
C37_QuizInvariants ==
    /\ [](QuizMounted(tv) =>
            /\ 0 <= tv.quiz.score
            /\ tv.quiz.score <= tv.quiz.currentQuestionIndex + 1
            /\ tv.quiz.currentQuestionIndex <= Len(QuizOf(tv))
            /\ tv.quiz.completions <= 1
            /\ QuizCompleteShown(tv.quiz, QuizOf(tv)) => tv.quiz.completions = 1)
    /\ [][ (QuizMounted(tv) /\ QuizMounted(tv')) =>
            LET q == tv.quiz
                qs == QuizOf(tv)
            IN /\ lastOp'.op = "quizSelect" =>
                     /\ ~q.showResult /\ q.selectedAnswer = Null
                     /\ tv'.quiz.selectedAnswer = Str(lastOp'.word)
                     /\ tv'.quiz.currentQuestionIndex = q.currentQuestionIndex
               /\ (q.selectedAnswer # Null /\ lastOp'.op \notin {"quizNext", "quizRestart"}) =>
                     tv'.quiz.selectedAnswer = q.selectedAnswer
               /\ tv'.quiz.score # q.score =>
                     lastOp'.op \in {"quizSelect", "quizRestart"}
               /\ lastOp'.op = "quizSelect" =>
                     tv'.quiz.score = q.score +
                         (IF lastOp'.word = qs[q.currentQuestionIndex + 1].correctAnswer
                          THEN 1 ELSE 0)
               /\ tv'.quiz.completions = q.completions + 1 <=>
                     (lastOp'.op = "quizNext" /\ q.currentQuestionIndex + 1 = Len(qs))
               /\ lastOp'.op = "quizRestart" =>
                     tv'.quiz.currentQuestionIndex = 0 /\ tv'.quiz.score = 0
          ]_vars

====
